---- MODULE Spec2Model ----
(***************************************************************************)
(* The echo adapter of go-micro (src/adapters/echo.go): one inbound        *)
(* request travelling through the tenant middleware, the JWT middleware,   *)
(* the per-route filters and the generic dispatcher (handleRequest) inside *)
(* the route wrapper, with the error mapper (mapHttpResponse).             *)
(*                                                                         *)
(* Strings whose characters matter (the roles claims) are sequences of     *)
(* one-character strings; every other string is an opaque TLA+ string.     *)
(***************************************************************************)
EXTENDS Integers, Sequences, FiniteSets, TLC

\* ------------------------------------------------------------------ bounds

\* the longest per-route filter chain the model registers
MaxFilters == 2
\* the longest roles claim (in characters) the model draws
MaxLen == 3

\* --------------------------------------------------------- program constants

StatusOK == 200
StatusBadRequest == 400
StatusUnauthorized == 401
StatusForbidden == 403
StatusNotFound == 404
StatusConflict == 409
StatusInternalServerError == 500

\* micro.DefaultTenantId: the well-known sentinel tenant
DefaultTenantId == "default"

\* ------------------------------------------------------------------ values

\* the six error types of util/errors that mapHttpResponse recognises
Taxonomy ==
    {"FunctionalError", "TechnicalError", "ForbiddenError",
     "UnauthorizedError", "ResourceNotFoundError", "ConflictError"}

\* schema.ErrorResponse.Errors: either a text or a map field -> tag
\* (a set of <<field, tag>> pairs)
NoErrors == [form |-> "none", text |-> "", fields |-> {}]
ErrorsText(s) == [form |-> "string", text |-> s, fields |-> {}]
ErrorsMap(S) == [form |-> "map", text |-> "", fields |-> S]

\* schema.ErrorResponse{Kind, Message, Errors}
NoBody == [Kind |-> "", Message |-> "", Errors |-> NoErrors]
SchemaErrorResponse(k, m, e) == [Kind |-> k, Message |-> m, Errors |-> e]

\* a Go error value (or, as a panic value, any value): its dynamic type and
\* the fields the adapter reads.  type "nil" is the nil error, "error" any
\* error type the mapper does not know (fmt.Errorf, a runtime.Error, a JSON
\* encoding error), "nonError" a panic value that is no error (a string).
ErrValue(t, k, m, d, c, b) ==
    [type |-> t, kind |-> k, message |-> m, details |-> d, code |-> c, body |-> b]
NoErr == ErrValue("nil", "", "", "", 0, NoBody)
TaxonomyError(t, k, m, d) == ErrValue(t, k, m, d, 0, NoBody)
PlainError(m) == ErrValue("error", "", m, "", 0, NoBody)
NonErrorValue(m) == ErrValue("nonError", "", m, "", 0, NoBody)
\* echo.NewHTTPError(code, message)
NewHTTPError(c, b) == ErrValue("HTTPError", "", "", "", c, b)

\* the response written through c.JSON(code, value): the status and the
\* value, by the Go type of the value
NoResp ==
    [status |-> 0, form |-> "none", Kind |-> "", Error |-> "", Details |-> "",
     payload |-> "", message |-> NoBody]
\* c.JSON(code, micro.ErrorResponse{Kind, Error, Details})
JSONErrorResponse(code, k, e, d) ==
    [status |-> code, form |-> "micro.ErrorResponse", Kind |-> k, Error |-> e,
     Details |-> d, payload |-> "", message |-> NoBody]
\* c.JSON(code, httpErr.Message)
JSONMessage(code, b) ==
    [status |-> code, form |-> "schema.ErrorResponse", Kind |-> "", Error |-> "",
     Details |-> "", payload |-> "", message |-> b]
\* c.JSON(code, payload) for a handler's result or a plain string
JSONPayload(code, p) ==
    [status |-> code, form |-> "payload", Kind |-> "", Error |-> "",
     Details |-> "", payload |-> p, message |-> NoBody]

\* --------------------------------------------------------- the error mapper

\* mapHttpResponse's type switch: the status written for an error type,
\* 0 when the type is not one of the six
TaxonomyStatus(t) ==
    CASE t = "FunctionalError" -> StatusBadRequest
      [] t = "TechnicalError" -> StatusInternalServerError
      [] t = "ForbiddenError" -> StatusForbidden
      [] t = "UnauthorizedError" -> StatusUnauthorized
      [] t = "ResourceNotFoundError" -> StatusNotFound
      [] t = "ConflictError" -> StatusConflict
      [] OTHER -> 0

\* mapHttpResponse with the HTTPError branch dropped
mapHttpResponse_noHTTPError(err) ==
    IF err.type \in Taxonomy
    THEN [wrote |-> TRUE,
          resp |-> JSONErrorResponse(TaxonomyStatus(err.type), err.kind,
                                     err.message, err.details),
          ret |-> NoErr]
    ELSE [wrote |-> FALSE, resp |-> NoResp, ret |-> err]

\* mapHttpResponse with Kind and Message swapped in the body
mapHttpResponse_swapped(err) ==
    IF err.type \in Taxonomy
    THEN [wrote |-> TRUE,
          resp |-> JSONErrorResponse(TaxonomyStatus(err.type), err.message,
                                     err.kind, err.details),
          ret |-> NoErr]
    ELSE IF err.type = "HTTPError"
    THEN [wrote |-> TRUE, resp |-> JSONMessage(err.code, err.body), ret |-> NoErr]
    ELSE [wrote |-> FALSE, resp |-> NoResp, ret |-> err]

\* mapHttpResponse(err, c): what it writes to the response (wrote, resp)
\* and the error it returns (c.JSON returns nil once the body is encoded)
mapHttpResponse(err) ==
    IF err.type \in Taxonomy
    THEN [wrote |-> TRUE,
          resp |-> JSONErrorResponse(TaxonomyStatus(err.type), err.kind,
                                     err.message, err.details),
          ret |-> NoErr]
    ELSE IF err.type = "HTTPError"
    THEN [wrote |-> TRUE, resp |-> JSONMessage(err.code, err.body), ret |-> NoErr]
    ELSE [wrote |-> FALSE, resp |-> NoResp, ret |-> err]

\* ------------------------------------------------- authentication context

\* micro.Authentication: the fields the adapter sets (a nil Roles slice is
\* the empty sequence)
Authentication(authd, tenant, user, roles, issuer) ==
    [Authenticated |-> authd, TenantId |-> tenant, UserId |-> user,
     Roles |-> roles, Issuer |-> issuer]

\* a value of a jwt.MapClaims entry: absent, a string (a sequence of
\* characters), or a value of another JSON type
AbsentClaim == [present |-> FALSE, isString |-> FALSE, val |-> <<>>]
NonStringClaim == [present |-> TRUE, isString |-> FALSE, val |-> <<>>]
StringClaim(s) == [present |-> TRUE, isString |-> TRUE, val |-> s]

\* strings.Split(s, ","): the pieces between the commas, in order; one
\* (empty) piece for the empty string
RECURSIVE Split(_)
Split(s) ==
    IF s = <<>> THEN << <<>> >>
    ELSE LET rest == Split(Tail(s))
         IN IF Head(s) = ","
            THEN << <<>> >> \o rest
            ELSE << <<Head(s)>> \o Head(rest) >> \o Tail(rest)

\* the tenant middleware with the header ignored
TenantMiddlewareAuth_noHeader(tenantHeader) ==
    Authentication(FALSE, DefaultTenantId, "", <<>>, "")

\* the tenant middleware (e.Use, first): the Authentication it stores under
\* micro.AuthKey for a request with this X-TenantId header ("" when absent)
TenantMiddlewareAuth(tenantHeader) ==
    Authentication(FALSE,
                   IF tenantHeader = "" THEN DefaultTenantId ELSE tenantHeader,
                   "", <<>>, "")

\* the Authorization headers the model sends, and strings.HasPrefix(authz,
\* "Bearer ") over them
AuthorizationHeaders == {"", "Basic dXNlcg==", "bearer tok", "Bearer tok"}
HasBearerPrefix(authz) == authz = "Bearer tok"

\* the JWT middleware's Skipper: TRUE leaves the request unauthenticated
Skipper(authz) == authz = "" \/ ~HasBearerPrefix(authz)

\* SuccessHandler taking the tenant from the issuer whatever the mode, and
\* the roles from "roles" even when "role" is present
SuccessHandler_wrong(claims, multiTenant) ==
    LET tenantId == IF claims.iss # "" THEN claims.iss ELSE DefaultTenantId
        roles == IF claims.roles.present THEN Split(claims.roles.val)
                 ELSE IF claims.role.present THEN Split(claims.role.val)
                 ELSE <<>>
    IN [panics |-> (claims.roles.present /\ ~claims.roles.isString)
                   \/ (claims.role.present /\ ~claims.role.isString),
        auth |-> Authentication(TRUE, tenantId, claims.sub, roles, claims.iss)]

\* the JWT middleware's SuccessHandler on a verified token's claims: the
\* Authentication it stores, or the panic of a value.(string) assertion on
\* a claim that is no string.  "role" is read after "roles" and overwrites it.
SuccessHandler(claims, multiTenant) ==
    LET tenantId == IF multiTenant /\ claims.iss # "" THEN claims.iss
                    ELSE DefaultTenantId
        roles1 == IF claims.roles.present THEN Split(claims.roles.val) ELSE <<>>
        roles2 == IF claims.role.present THEN Split(claims.role.val) ELSE roles1
    IN [panics |-> (claims.roles.present /\ ~claims.roles.isString)
                   \/ (claims.role.present /\ ~claims.role.isString),
        auth |-> Authentication(TRUE, tenantId, claims.sub, roles2, claims.iss)]

\* the value echo's context holds under micro.AuthKey: nothing, the
\* *micro.Authentication, or (between token parsing and SuccessHandler's
\* c.Set) the *jwt.Token
NoAuth == Authentication(FALSE, "", "", <<>>, "")
NilValue == [tag |-> "nil", auth |-> NoAuth]
AuthValue(a) == [tag |-> "auth", auth |-> a]
TokenValue == [tag |-> "token", auth |-> NoAuth]

\* micro.Ctx: the Request Context wrapping an Authentication
NewAuthCtx(a) == [TenantId |-> a.TenantId, Auth |-> a]
NewCtx(tenant) ==
    [TenantId |-> tenant, Auth |-> Authentication(FALSE, tenant, "", <<>>, "")]
NoCtx == [TenantId |-> "", Auth |-> NoAuth]

\* createRouteContext(c) on the value stored under micro.AuthKey
createRouteContext(value) ==
    IF value.tag = "nil" THEN NewCtx(DefaultTenantId) ELSE NewAuthCtx(value.auth)

\* ------------------------------------------------------------ input binding

\* the input type of the two-parameter handlers: two integer fields, x
\* tagged validate:"required" and y tagged validate:"min=2"; 0 is the
\* zero value
ZeroInput == [x |-> 0, y |-> 0]

\* a request body: whether it decodes, and the fields it sets (0: not set)
Body(ok, x, y) == [ok |-> ok, x |-> x, y |-> y]
\* the request headers bound by BindHeaders: whether they convert, and the
\* fields they set (0: header absent)
Headers(ok, x, y) == [ok |-> ok, x |-> x, y |-> y]

\* binder.Bind / binder.BindHeaders: a field the source sets overwrites the
\* value bound so far, a field it does not set is left alone
Populate(input, src) ==
    [x |-> IF src.x # 0 THEN src.x ELSE input.x,
     y |-> IF src.y # 0 THEN src.y ELSE input.y]

\* validate.Struct(input) and the loop over its ValidationErrors: the map
\* e.Field() -> e.Tag(), as a set of pairs
ValidationErrors(input) ==
    (IF input.x = 0 THEN {<<"x", "required">>} ELSE {})
      \cup (IF input.y < 2 THEN {<<"y", "min">>} ELSE {})

\* Bind that skips validate.Struct
Bind_noValidation(body, headers) ==
    IF ~body.ok
    THEN [err |-> NewHTTPError(StatusBadRequest,
                     SchemaErrorResponse("input.bindind", "invalid_request_payload",
                                         ErrorsText("bind: body"))),
          input |-> ZeroInput]
    ELSE IF ~headers.ok
    THEN [err |-> NewHTTPError(StatusBadRequest,
                     SchemaErrorResponse("input.bindind", "invalid_request_payload",
                                         ErrorsText("bind: headers"))),
          input |-> Populate(ZeroInput, body)]
    ELSE [err |-> NoErr, input |-> Populate(Populate(ZeroInput, body), headers)]

\* Bind(c, input): the error it returns (nil, or an *echo.HTTPError of
\* status 400 around a schema.ErrorResponse) and the input as populated
Bind(body, headers) ==
    IF ~body.ok
    THEN [err |-> NewHTTPError(StatusBadRequest,
                     SchemaErrorResponse("input.bindind", "invalid_request_payload",
                                         ErrorsText("bind: body"))),
          input |-> ZeroInput]
    ELSE IF ~headers.ok
    THEN [err |-> NewHTTPError(StatusBadRequest,
                     SchemaErrorResponse("input.bindind", "invalid_request_payload",
                                         ErrorsText("bind: headers"))),
          input |-> Populate(ZeroInput, body)]
    ELSE LET input == Populate(Populate(ZeroInput, body), headers)
             errs == ValidationErrors(input)
         IN [err |-> IF errs # {}
                     THEN NewHTTPError(StatusBadRequest,
                              SchemaErrorResponse("validation", "validation.failed",
                                                  ErrorsMap(errs)))
                     ELSE NoErr,
             input |-> input]

\* ------------------------------------------------------ generic dispatcher

\* a handler value as reflection sees it: kind "nil" (the nil interface),
\* "value" (a non-function value) or "func" with its parameter count, the
\* type of its first parameter ("" when it has none) and its result count
Handler(kind, numIn, firstArg, numOut) ==
    [kind |-> kind, numIn |-> numIn, firstArg |-> firstArg, numOut |-> numOut]

\* what one invocation of the handler does: it panics with a value, or it
\* returns its results (the payload and, with two results, the error)
Behaviour(panics, pval, err, payload) ==
    [panics |-> panics, pval |-> pval, err |-> err, payload |-> payload]
NoBehaviour == Behaviour(FALSE, NoErr, NoErr, "")

\* whether encoding/json can encode the payload (a channel cannot be)
Serializable(payload) == payload # "chan"

\* handleRequest's shape validation: reflect.TypeOf(handler) is nil for the
\* nil interface and handlerType.Kind() then panics; else the first failing
\* check's error, or nil
ShapeCheck(h) ==
    IF h.kind = "nil"
    THEN [panics |-> TRUE, err |-> PlainError("nil pointer dereference")]
    ELSE IF h.kind # "func"
    THEN [panics |-> FALSE, err |-> PlainError("controller method is not a function")]
    ELSE IF h.numIn = 0
    THEN [panics |-> FALSE,
          err |-> PlainError("controller method must have at least one argument")]
    ELSE IF h.numIn > 2
    THEN [panics |-> FALSE,
          err |-> PlainError("controller method must have at most two arguments")]
    ELSE IF h.firstArg # "micro.Ctx"
    THEN [panics |-> FALSE,
          err |-> PlainError("handler must be a function with the first argument of type micro.Ctx")]
    ELSE [panics |-> FALSE, err |-> NoErr]

\* the outcome of the unit of work, or of handleRequest: the dispatch steps
\* taken in order (events), whether the handler was invoked and with which
\* context and input, the panic leaving it (panics, pval) or the error it
\* returns (ret), and the response it wrote (wrote, resp)
Outcome(events, invoked, ctx, input, panics, pval, ret, wrote, resp) ==
    [events |-> events, invoked |-> invoked, ctx |-> ctx, input |-> input,
     panics |-> panics, pval |-> pval, ret |-> ret, wrote |-> wrote, resp |-> resp]
NoOutcome == Outcome(<<>>, FALSE, NoCtx, ZeroInput, FALSE, NoErr, NoErr, FALSE, NoResp)

\* the unit of work returning nil after a handler error
UnitOfWork_swallow(h, tx, body, headers, beh) ==
    LET bound == IF h.numIn = 2 THEN Bind(body, headers)
                 ELSE [err |-> NoErr, input |-> ZeroInput]
        pre == IF h.numIn = 2 THEN <<"bind">> ELSE <<>>
    IN IF bound.err # NoErr
       THEN Outcome(pre, FALSE, NoCtx, ZeroInput, FALSE, NoErr, bound.err, FALSE, NoResp)
       ELSE IF beh.panics
       THEN Outcome(pre \o <<"invoke">>, TRUE, tx, bound.input, TRUE, beh.pval,
                    NoErr, FALSE, NoResp)
       ELSE IF h.numOut \notin {1, 2}
       THEN Outcome(pre \o <<"invoke">>, TRUE, tx, bound.input, FALSE, NoErr,
                    PlainError("invalid handler return type"), FALSE, NoResp)
       ELSE IF h.numOut = 2 /\ beh.err # NoErr
       THEN Outcome(pre \o <<"invoke">>, TRUE, tx, bound.input, FALSE, NoErr,
                    NoErr, FALSE, NoResp)
       ELSE IF ~Serializable(beh.payload)
       THEN Outcome(pre \o <<"invoke", "json">>, TRUE, tx, bound.input, FALSE, NoErr,
                    PlainError("json: unsupported type"), FALSE, NoResp)
       ELSE Outcome(pre \o <<"invoke", "json">>, TRUE, tx, bound.input, FALSE, NoErr,
                    NoErr, TRUE, JSONPayload(StatusOK, beh.payload))

\* the function handleRequest passes to ctx.Tx: bind the input (two
\* parameters only), call the handler, interpret its results, serialize.
\* err is nil whenever line 374 is reached, so the mapHttpResponse call
\* under it never runs.
UnitOfWork(h, tx, body, headers, beh) ==
    LET bound == IF h.numIn = 2 THEN Bind(body, headers)
                 ELSE [err |-> NoErr, input |-> ZeroInput]
        pre == IF h.numIn = 2 THEN <<"bind">> ELSE <<>>
    IN IF bound.err # NoErr
       THEN Outcome(pre, FALSE, NoCtx, ZeroInput, FALSE, NoErr, bound.err, FALSE, NoResp)
       ELSE IF beh.panics
       THEN Outcome(pre \o <<"invoke">>, TRUE, tx, bound.input, TRUE, beh.pval,
                    NoErr, FALSE, NoResp)
       ELSE IF h.numOut \notin {1, 2}
       THEN Outcome(pre \o <<"invoke">>, TRUE, tx, bound.input, FALSE, NoErr,
                    PlainError("invalid handler return type"), FALSE, NoResp)
       ELSE IF h.numOut = 2 /\ beh.err # NoErr
       THEN Outcome(pre \o <<"invoke">>, TRUE, tx, bound.input, FALSE, NoErr,
                    beh.err, FALSE, NoResp)
       ELSE IF ~Serializable(beh.payload)
       THEN Outcome(pre \o <<"invoke", "json">>, TRUE, tx, bound.input, FALSE, NoErr,
                    PlainError("json: unsupported type"), FALSE, NoResp)
       ELSE Outcome(pre \o <<"invoke", "json">>, TRUE, tx, bound.input, FALSE, NoErr,
                    NoErr, TRUE, JSONPayload(StatusOK, beh.payload))

\* micro.Ctx.Tx(fn): runs fn in a transactional scope that commits when fn
\* returns nil and rolls back when it returns an error or panics; fn's
\* error, or its panic, is the caller's
Tx(u) ==
    [u EXCEPT !.events =
        <<"tx.begin">> \o u.events
          \o <<IF u.panics \/ u.ret # NoErr THEN "tx.rollback" ELSE "tx.commit">>]

\* handleRequest(c, handler): value is what c holds under micro.AuthKey
handleRequest(h, value, body, headers, beh) ==
    LET shape == ShapeCheck(h)
    IN IF shape.panics
       THEN Outcome(<<>>, FALSE, NoCtx, ZeroInput, TRUE, shape.err, NoErr, FALSE, NoResp)
       ELSE IF shape.err # NoErr
       THEN Outcome(<<>>, FALSE, NoCtx, ZeroInput, FALSE, NoErr, shape.err, FALSE, NoResp)
       ELSE LET ctx == createRouteContext(value)
                t == Tx(UnitOfWork(h, ctx, body, headers, beh))
            IN [t EXCEPT !.events = <<"ctx">> \o t.events]

\* ------------------------------------------------------------ route wrapper

\* what the route wrapper hands back to echo: the error it returns (ret), a
\* panic leaving it (escaped, NoErr when none), the response it wrote and
\* the errors it gave to mapHttpResponse
Wrapped(ret, escaped, wrote, resp, calls) ==
    [ret |-> ret, escaped |-> escaped, wrote |-> wrote, resp |-> resp, calls |-> calls]

\* the deferred function of the wrapper on a recovered panic value:
\* err0.(error) panics anew when the value is no error, else
\* err = mapHttpResponse(err0.(error), c)
Recovered(pval) ==
    IF pval.type = "nonError"
    THEN Wrapped(NoErr, PlainError("interface conversion: not an error"),
                 FALSE, NoResp, <<>>)
    ELSE LET m == mapHttpResponse(pval)
         IN Wrapped(m.ret, NoErr, m.wrote, m.resp, <<pval>>)

\* the closure registered by echoRouterAdapter.request and by
\* echoGroupRoute.request (which also logs the recovered value), on the
\* outcome d of handleRequest(c, handler)
request(d) ==
    IF d.panics THEN Recovered(d.pval)
    ELSE Wrapped(d.ret, NoErr, d.wrote, d.resp, <<>>)

\* createMiddlewares: the filter the i-th middleware closure calls, of n
\* registered.  The closure captures the loop variable `filter`: one
\* variable per iteration from Go 1.22 on, one variable for the whole loop
\* (left holding the last filter) before; the repository's go directive is
\* not part of the sources, so both builds are modelled.
CapturedFilter(i, n, perIteration) == IF perIteration THEN i ELSE n

\* ------------------------------------------------------------------- state

VARIABLES
    cfg,          \* micro.RouterConfig: TokenProvider set, MultiTenant
    perIteration, \* the build: TRUE when range variables are per iteration
    req,          \* the inbound request
    route,        \* the matched registration: handler and filters
    pc,           \* where the request is in echo's chain
    store,        \* what echo's context holds under micro.AuthKey
    fidx,         \* the per-route middleware that runs next
    filterCalls,  \* the filters called so far, each with the context it got
    beh,          \* what the handler did when it was invoked
    wrapper,      \* the wrapper that ran: "router", "group" or ""
    disp,         \* the outcome of handleRequest
    mapped,       \* the errors given to mapHttpResponse so far
    resp,         \* the response written so far
    returned,     \* the error returned to echo
    escaped,      \* a panic that left the adapter's code (NoErr when none)
    sent,         \* the response echo sends when the chain has returned
    arg           \* the error under test when the mapper runs alone

vars ==
    <<cfg, perIteration, req, route, pc, store, fidx, filterCalls, beh, wrapper,
      disp, mapped, resp, returned, escaped, sent, arg>>

\* -------------------------------------------------------------- input sets

Chars == {"a", "b", ","}

\* the character strings of length at most n
RECURSIVE Strs(_)
Strs(n) ==
    IF n = 0 THEN {<<>>}
    ELSE LET shorter == Strs(n - 1)
         IN shorter \cup {Append(s, c) : s \in shorter, c \in Chars}

Claims(sub, iss, roles, role) ==
    [sub |-> sub, iss |-> iss, roles |-> roles, role |-> role]
\* {sub: u1, iss: acme.org, roles: "a,b"}
SampleClaims ==
    Claims("u1", "acme.org", StringClaim(<<"a", ",", "b">>), AbsentClaim)
ClaimSets ==
    {Claims(sub, iss, roles, role) :
        sub \in {"", "u1"}, iss \in {"", "acme.org"},
        roles \in {AbsentClaim, NonStringClaim} \cup {StringClaim(s) : s \in Strs(MaxLen)},
        role \in {AbsentClaim, NonStringClaim, StringClaim(<<"b">>)}}

Request(tenantHeader, authz, tokenValid, claims, body, headers) ==
    [tenantHeader |-> tenantHeader, authorization |-> authz,
     tokenValid |-> tokenValid, claims |-> claims, body |-> body, headers |-> headers]

Bodies == {Body(FALSE, 0, 0), Body(TRUE, 0, 0), Body(TRUE, 1, 0), Body(TRUE, 1, 1)}
HeaderSets ==
    {Headers(FALSE, 0, 0), Headers(TRUE, 0, 0), Headers(TRUE, 0, 2), Headers(TRUE, 2, 2)}

MalformedHandlers ==
    {Handler("nil", 0, "", 0), Handler("value", 0, "", 0),
     Handler("func", 0, "", 2), Handler("func", 3, "micro.Ctx", 2),
     Handler("func", 1, "*micro.Ctx", 2), Handler("func", 2, "string", 2)}
ValidHandlers ==
    {Handler("func", numIn, "micro.Ctx", numOut) : numIn \in {1, 2}, numOut \in 0..3}

SampleError(t) == TaxonomyError(t, "k1", "m1", "d1")
SampleHTTPError ==
    NewHTTPError(StatusNotFound, SchemaErrorResponse("http", "not found", NoErrors))
PanicValues ==
    {SampleError("TechnicalError"), SampleError("FunctionalError"), SampleHTTPError,
     PlainError("runtime error"), NonErrorValue("boom")}
ReturnErrors ==
    {SampleError(t) : t \in Taxonomy} \cup {SampleHTTPError, PlainError("EOF")}
FilterResults == {NoErr, SampleError("ForbiddenError"), PlainError("denied")}

\* what a handler of this shape may do when it is called
Behaviours(h) ==
    {Behaviour(TRUE, p, NoErr, "") : p \in PanicValues}
      \cup {Behaviour(FALSE, NoErr, NoErr, pl) : pl \in {"p1", "chan"}}
      \cup {Behaviour(FALSE, NoErr, e, "") :
              e \in IF h.numOut = 2 THEN ReturnErrors ELSE {}}

RECURSIVE FilterChains(_)
FilterChains(n) ==
    IF n = 0 THEN {<<>>}
    ELSE LET shorter == FilterChains(n - 1)
         IN shorter \cup {Append(fs, r) : fs \in shorter, r \in FilterResults}

Route(handler, filters) == [handler |-> handler, filters |-> filters]

\* ------------------------------------------------------------------- Init

\* the state of a request about to enter echo's chain
Entering(c, p, rq, rt, start, e) ==
    /\ cfg = c
    /\ perIteration = p
    /\ req = rq
    /\ route = rt
    /\ pc = start
    /\ store = NilValue
    /\ fidx = 1
    /\ filterCalls = <<>>
    /\ beh = NoBehaviour
    /\ wrapper = ""
    /\ disp = NoOutcome
    /\ mapped = <<>>
    /\ resp = NoResp
    /\ returned = NoErr
    /\ escaped = NoErr
    /\ sent = NoResp
    /\ arg = e

\* the dispatch pipeline: every handler shape, filter chain, body and
\* header set, behind a few authentication cases
Init ==
    \E h \in MalformedHandlers \cup ValidHandlers,
       fs \in FilterChains(MaxFilters),
       p \in BOOLEAN,
       th \in {"", "acme"},
       az \in {"", "Bearer tok"},
       tv \in BOOLEAN,
       b \in Bodies,
       hd \in HeaderSets :
        /\ (Len(fs) < 2 => p)
        /\ (az = "" => tv)
        /\ (~(h \in ValidHandlers /\ h.numIn = 2)
              => b = Body(TRUE, 1, 0) /\ hd = Headers(TRUE, 0, 2))
        /\ Entering([TokenProvider |-> TRUE, MultiTenant |-> TRUE], p,
                    Request(th, az, tv, SampleClaims, b, hd), Route(h, fs),
                    "tenant", NoErr)

\* the authentication pipeline: every configuration, header and claim set,
\* in front of one route
InitAuth ==
    \E tp \in BOOLEAN, mt \in BOOLEAN,
       th \in {"", "acme"},
       az \in AuthorizationHeaders,
       tv \in BOOLEAN,
       cl \in ClaimSets :
        /\ (~(tp /\ HasBearerPrefix(az)) => tv)
        /\ (~(tp /\ HasBearerPrefix(az) /\ tv) => cl = SampleClaims)
        /\ Entering([TokenProvider |-> tp, MultiTenant |-> mt], TRUE,
                    Request(th, az, tv, cl, Body(TRUE, 1, 0), Headers(TRUE, 0, 2)),
                    Route(Handler("func", 2, "micro.Ctx", 2), <<NoErr>>),
                    "tenant", NoErr)

\* ---------------------------------------------------------------- actions

\* the first e.Use middleware (lines 80-93)
TenantMiddleware ==
    /\ pc = "tenant"
    /\ store' = AuthValue(TenantMiddlewareAuth(req.tenantHeader))
    /\ pc' = "jwt"
    /\ UNCHANGED <<cfg, perIteration, req, route, fidx, filterCalls, beh, wrapper,
                   disp, mapped, resp, returned, escaped, sent, arg>>

\* where the chain goes after the global middlewares
AfterGlobal == IF Len(route.filters) = 0 THEN "route" ELSE "filters"

\* no JWT middleware is installed, or its Skipper lets the request through
JWTSkip ==
    /\ pc = "jwt"
    /\ ~cfg.TokenProvider \/ Skipper(req.authorization)
    /\ pc' = AfterGlobal
    /\ UNCHANGED <<cfg, perIteration, req, route, store, fidx, filterCalls, beh,
                   wrapper, disp, mapped, resp, returned, escaped, sent, arg>>

\* the token does not verify: ErrorHandler answers 401 and the chain ends
JWTError ==
    /\ pc = "jwt"
    /\ cfg.TokenProvider /\ ~Skipper(req.authorization)
    /\ ~req.tokenValid
    /\ resp' = JSONPayload(StatusUnauthorized, "token error")
    /\ pc' = "done"
    /\ UNCHANGED <<cfg, perIteration, req, route, store, fidx, filterCalls, beh,
                   wrapper, disp, mapped, returned, escaped, sent, arg>>

\* the token verifies: the middleware stores the token under micro.AuthKey
\* and calls SuccessHandler, whose panic ends the request in echo's Recover
JWTSuccess ==
    /\ pc = "jwt"
    /\ cfg.TokenProvider /\ ~Skipper(req.authorization)
    /\ req.tokenValid
    /\ LET s == SuccessHandler(req.claims, cfg.MultiTenant)
       IN IF s.panics
          THEN /\ store' = TokenValue
               /\ escaped' = PlainError("interface conversion: not a string")
               /\ pc' = "done"
          ELSE /\ store' = AuthValue(s.auth)
               /\ escaped' = escaped
               /\ pc' = AfterGlobal
    /\ UNCHANGED <<cfg, perIteration, req, route, fidx, filterCalls, beh, wrapper,
                   disp, mapped, resp, returned, sent, arg>>

\* the fidx-th middleware built by createMiddlewares (lines 439-446)
Filter ==
    /\ pc = "filters"
    /\ LET n == Len(route.filters)
           k == CapturedFilter(fidx, n, perIteration)
           err == route.filters[k]
           m == mapHttpResponse(err)
       IN /\ filterCalls' =
                Append(filterCalls, [filter |-> k, ctx |-> createRouteContext(store)])
          /\ IF err # NoErr
             THEN /\ mapped' = Append(mapped, err)
                  /\ resp' = IF m.wrote THEN m.resp ELSE resp
                  /\ returned' = m.ret
                  /\ pc' = "done"
                  /\ fidx' = fidx
             ELSE /\ fidx' = fidx + 1
                  /\ pc' = IF fidx = n THEN "route" ELSE "filters"
                  /\ UNCHANGED <<mapped, resp, returned>>
    /\ UNCHANGED <<cfg, perIteration, req, route, store, beh, wrapper, disp,
                   escaped, sent, arg>>

\* the route's closure (lines 247-253, 295-302) around handleRequest
Dispatch ==
    /\ pc = "route"
    /\ \E w \in {"router", "group"}, b \in Behaviours(route.handler) :
         LET d == handleRequest(route.handler, store, req.body, req.headers, b)
             r == request(d)
         IN /\ disp' = d
            /\ beh' = IF d.invoked THEN b ELSE NoBehaviour
            /\ wrapper' = w
            /\ mapped' = mapped \o r.calls
            /\ resp' = IF r.wrote THEN r.resp ELSE resp
            /\ returned' = r.ret
            /\ escaped' = r.escaped
    /\ pc' = "done"
    /\ UNCHANGED <<cfg, perIteration, req, route, store, fidx, filterCalls, sent, arg>>

\* echo once the chain has returned: a response already written stands;
\* else the HTTPErrorHandler that echo.New() installs answers a returned
\* *echo.HTTPError with its code and message, and any other returned error
\* (or a panic caught by the Recover middleware) with 500
Respond ==
    /\ pc = "done"
    /\ sent' =
         IF resp # NoResp THEN resp
         ELSE IF returned.type = "HTTPError"
         THEN JSONMessage(returned.code, returned.body)
         ELSE IF returned # NoErr \/ escaped # NoErr
         THEN JSONPayload(StatusInternalServerError, "Internal Server Error")
         ELSE NoResp
    /\ pc' = "sent"
    /\ UNCHANGED <<cfg, perIteration, req, route, store, fidx, filterCalls, beh,
                   wrapper, disp, mapped, resp, returned, escaped, arg>>

Next ==
    \/ TenantMiddleware
    \/ JWTSkip
    \/ JWTError
    \/ JWTSuccess
    \/ Filter
    \/ Dispatch
    \/ Respond

Spec == Init /\ [][Next]_vars

SpecAuth == InitAuth /\ [][Next]_vars

\* ------------------------------------------------------- the mapper alone

MapperInputs ==
    {TaxonomyError(t, k, m, d) :
        t \in Taxonomy, k \in {"k1", "k2"}, m \in {"m1", "m2"}, d \in {"", "d1"}}
      \cup {NewHTTPError(c, SchemaErrorResponse("http", m, NoErrors)) :
              c \in {StatusBadRequest, StatusNotFound}, m \in {"m1", "m2"}}
      \cup {PlainError(m) : m \in {"m1", "m2"}}

InitMapper ==
    \E e \in MapperInputs :
        Entering([TokenProvider |-> FALSE, MultiTenant |-> FALSE], TRUE,
                 Request("", "", TRUE, SampleClaims, Body(TRUE, 1, 0),
                         Headers(TRUE, 0, 2)),
                 Route(Handler("func", 1, "micro.Ctx", 2), <<>>),
                 "map", e)

\* mapHttpResponse(arg, c) on a fresh response
MapError ==
    /\ pc = "map"
    /\ LET m == mapHttpResponse(arg)
       IN /\ mapped' = Append(mapped, arg)
          /\ resp' = IF m.wrote THEN m.resp ELSE resp
          /\ returned' = m.ret
    /\ pc' = "done"
    /\ UNCHANGED <<cfg, perIteration, req, route, store, fidx, filterCalls, beh,
                   wrapper, disp, escaped, sent, arg>>

SpecMapper == InitMapper /\ [][MapError]_vars

\* ------------------------------------------------------------------ claims

\* the status the specification documents for each taxonomy kind
DocumentedStatus(t) ==
    CASE t = "FunctionalError" -> 400
      [] t = "TechnicalError" -> 500
      [] t = "ForbiddenError" -> 403
      [] t = "UnauthorizedError" -> 401
      [] t = "ResourceNotFoundError" -> 404
      [] t = "ConflictError" -> 409

\* a malformed handler shape, as the specification lists them
IsMalformed(h) ==
    h.kind # "func" \/ h.numIn = 0 \/ h.numIn > 2 \/ h.firstArg # "micro.Ctx"

\* the route's closure ran (the request reached the dispatcher)
Dispatched == pc \in {"done", "sent"} /\ wrapper # ""

\* the handler was called and returned (it did not panic)
HandlerReturned == Dispatched /\ disp.invoked /\ ~beh.panics

\* the request's body or headers do not bind, or the bound input breaks a
\* rule of its type (x required, y at least 2; headers bind after the body)
BodyLeavesXZero == req.body.x = 0 /\ req.headers.x = 0
BodyLeavesYSmall == req.headers.y = 0 /\ req.body.y < 2
BindingFails == ~req.body.ok \/ ~req.headers.ok
ValidationFails == ~BindingFails /\ (BodyLeavesXZero \/ BodyLeavesYSmall)
TwoParameters == ~IsMalformed(route.handler) /\ route.handler.numIn = 2

\* C1: a taxonomy error returned by a valid two-result handler reaches
\* mapHttpResponse and the response carries the kind's documented status
\* and the mapped body.
C1_ReturnedErrorMapped ==
    (HandlerReturned /\ route.handler.numOut = 2 /\ beh.err.type \in Taxonomy)
      => /\ mapped = <<beh.err>>
         /\ pc = "sent"
              => /\ sent.status = DocumentedStatus(beh.err.type)
                 /\ sent.Kind = beh.err.kind
                 /\ sent.Error = beh.err.message
                 /\ sent.Details = beh.err.details

\* C2: for every malformed handler value, handleRequest returns an error
\* without invoking the handler, building a context, starting a unit of
\* work, binding input or writing a response.
C2_MalformedRejected ==
    (Dispatched /\ IsMalformed(route.handler))
      => /\ ~disp.panics
         /\ disp.ret.type = "error"
         /\ returned = disp.ret
         /\ ~disp.invoked
         /\ disp.events = <<>>
         /\ ~disp.wrote
         /\ resp = NoResp

C4_PanicMapped ==
    (Dispatched /\ disp.invoked /\ beh.panics)
      => /\ escaped = NoErr
         /\ mapped = <<beh.pval>>
         /\ (pc = "sent" /\ beh.pval.type = "TechnicalError")
            => /\ sent.status = 500
               /\ sent.Kind = beh.pval.kind
               /\ sent.Error = beh.pval.message
               /\ sent.Details = beh.pval.details

\* C5: for each of the six kinds mapHttpResponse writes the documented
\* status and a body whose kind, message and details are the error's.
C5_TaxonomyMapping ==
    (pc = "done" /\ arg.type \in Taxonomy)
      => /\ resp.status = DocumentedStatus(arg.type)
         /\ resp.form = "micro.ErrorResponse"
         /\ resp.Kind = arg.kind
         /\ resp.Error = arg.message
         /\ resp.Details = arg.details

\* a Conflict error with its own kind, message and details was mapped to 409
C5_Witness ==
    /\ pc = "done"
    /\ arg = TaxonomyError("ConflictError", "k2", "m1", "d1")
    /\ resp.status = 409
    /\ resp.Kind = "k2"

\* the first filter that returns an error, 0 when none does
RECURSIVE FirstError(_, _)
FirstError(fs, i) ==
    IF i > Len(fs) THEN 0
    ELSE IF fs[i] # NoErr THEN i
    ELSE FirstError(fs, i + 1)

RECURSIVE JoinComma(_)
JoinComma(ps) ==
    IF ps = <<>> THEN <<>>
    ELSE IF Len(ps) = 1 THEN ps[1]
    ELSE ps[1] \o <<",">> \o JoinComma(Tail(ps))

\* roles is the comma-split of the claim: its pieces hold no comma and,
\* joined by commas, give the claim back; no roles without a claim
IsSplitOf(roles, claim) ==
    IF ~claim.present THEN roles = <<>>
    ELSE /\ Len(roles) >= 1
         /\ \A i \in DOMAIN roles : \A j \in DOMAIN roles[i] : roles[i][j] # ","
         /\ JoinComma(roles) = claim.val

\* the request is past the JWT middleware
PastJWT == pc \in {"filters", "route", "done", "sent"}

\* the request carries a Bearer token that the JWT middleware verified
VerifiedBearer ==
    /\ cfg.TokenProvider
    /\ req.authorization = "Bearer tok"
    /\ req.tokenValid

C8_UnauthenticatedContext ==
    (PastJWT /\ req.authorization \in {"", "Basic dXNlcg==", "bearer tok"})
      => LET tenant == IF req.tenantHeader # "" THEN req.tenantHeader ELSE "default"
         IN /\ store.tag = "auth"
            /\ ~store.auth.Authenticated
            /\ store.auth.TenantId = tenant
            /\ store.auth.TenantId # ""
            /\ \A i \in DOMAIN filterCalls :
                 /\ ~filterCalls[i].ctx.Auth.Authenticated
                 /\ filterCalls[i].ctx.TenantId = tenant
            /\ disp.invoked
                 => /\ ~disp.ctx.Auth.Authenticated
                    /\ disp.ctx.TenantId = tenant
                    /\ disp.ctx.Auth.TenantId = tenant

\* X-TenantId: acme without Authorization reached a filter and the handler
\* as tenant acme, unauthenticated
C8_Witness ==
    /\ pc = "done" /\ disp.invoked
    /\ req.tenantHeader = "acme" /\ req.authorization = ""
    /\ Len(filterCalls) = 1
    /\ filterCalls[1].ctx.TenantId = "acme"
    /\ disp.ctx.TenantId = "acme"
    /\ ~disp.ctx.Auth.Authenticated

\* C9, as claimed: an error of any type other than the six is written
\* nowhere and returned as it is.
C9_OthersUnmapped ==
    (pc = "done" /\ arg.type \notin Taxonomy)
      => /\ resp = NoResp
         /\ returned = arg

\* C9, amended: mapHttpResponse writes a response for each of the six kinds
\* and returns nil; for an *echo.HTTPError it writes the error's code and
\* message and returns nil; for an error of any other type it writes
\* nothing and returns the same error.
C9_MappingWithFallback ==
    pc = "done"
      => /\ arg.type \in Taxonomy
            => /\ resp.status = DocumentedStatus(arg.type)
               /\ returned = NoErr
         /\ arg.type = "HTTPError"
            => /\ resp.status = arg.code
               /\ resp.form = "schema.ErrorResponse"
               /\ resp.message = arg.body
               /\ returned = NoErr
         /\ arg.type \notin Taxonomy \cup {"HTTPError"}
            => /\ resp = NoResp
               /\ returned = arg

\* an error of an unknown type came back unmapped, nothing written
C9_Witness ==
    /\ pc = "done"
    /\ arg = PlainError("m1")
    /\ returned = arg
    /\ resp = NoResp

\* the dispatch steps inside the unit of work, in order
InnerEvents == SubSeq(disp.events, 3, Len(disp.events) - 1)
IsPrefix(s, t) == Len(s) <= Len(t) /\ s = SubSeq(t, 1, Len(s))

====
